---- MODULE Spec2Model ----
(***************************************************************************)
(* Session sampling, event log and productivity scoring of the student      *)
(* monitoring application: the SQLite store of db.py and the Streamlit page *)
(* pages/2_Student_Session.py that drives it.                               *)
(*                                                                          *)
(* Conventions.                                                             *)
(*  - A nullable SQL column or Python value is a sequence: NULL is << >>,   *)
(*    the value v is <<v>>.                                                 *)
(*  - Timestamps are whole seconds ("%Y-%m-%d %H:%M:%S").                   *)
(*  - A score is an integer number of hundredths (81.5 is 8150); the terms  *)
(*    the scorer computes before rounding are exact fractions <<num, den>>. *)
(*    The doubles of the source agree with the exact value wherever the     *)
(*    exact value is not half-way between two hundredths; Round2 breaks a   *)
(*    half-way case to even, as round() does on an exactly represented      *)
(*    double.  No input within the bounds below is half-way.                *)
(***************************************************************************)
EXTENDS Integers, Sequences, FiniteSets

VARIABLES
    sessions,        \* table sessions: row id |-> row (ids are 1..Len)
    emotion_logs,    \* table emotion_logs, in insertion order
    focus_logs,      \* table focus_logs, in insertion order
    now,             \* the wall clock, in seconds
    session_state,   \* st.session_state of each browser session of the page
    loop,            \* each page script's position and loop locals
    EMOTION_BACKEND, \* module global of the page, set at import
    scene,           \* the faces in front of the camera, each with its eyes
    imports,         \* which classifier libraries the interpreter can import
    cursor,          \* db.cursor, the one cursor every script thread shares
    thread           \* each script thread's db call in progress and its locals

storeVars == <<sessions, emotion_logs, focus_logs>>
pageVars == <<session_state, loop>>
\* what a handler of the page, taken as one step, leaves as it is: the
\* backend, the view, and the cursor with the calls in progress on it
envVars == <<EMOTION_BACKEND, scene, imports, cursor, thread>>
vars == <<sessions, emotion_logs, focus_logs, now, session_state, loop, EMOTION_BACKEND, scene, imports, cursor, thread>>

----------------------------------------------------------------------------
(* Bounds *)

MaxTime == 3        \* the clock stops advancing here
MaxRows == 4        \* rows drawn for the two event tables of StoreSpec
MaxSessions == 2    \* sessions rows the page may insert
MaxFrames == 15     \* frames one run of the monitoring loop may read
MaxEvents == 1      \* emotion events the page may append
MaxCadenceFrames == 30  \* frames the loop of CadenceSpec may read
MaxEmotionFrames == 60  \* frames the loop of EmotionSpec may read
MaxCallRows == 3     \* event rows the direct calls of DbSpec may insert

----------------------------------------------------------------------------
(* Values *)

NULL == << >>
Some(v) == <<v>>

\* the labels the classifiers report, and one they do not know
KnownEmotions == {"happy", "surprise", "neutral", "angry", "sad", "fear", "disgust"}
UnknownEmotion == "contempt"

FocusStatuses == {"Focused", "Distracted"}
\* the alternate label of historical rows (3_Dashboard.py:286-288)
LegacyStatus == "Unfocused"

RECURSIVE SumOver(_, _)
\* sum(f(x) for x in S)
SumOver(S, f) ==
    IF S = {} THEN 0
    ELSE LET x == CHOOSE y \in S : TRUE
         IN  f[x] + SumOver(S \ {x}, f)

----------------------------------------------------------------------------
(* db.py: the store *)

\* INSERT INTO sessions (student_id, start_time): end_time has no default,
\* productivity_score REAL DEFAULT 0
SessionRow(student_id, start_time) ==
    [student_id |-> student_id, start_time |-> start_time,
     end_time |-> NULL, productivity_score |-> Some(0)]

SessionIds == DOMAIN sessions

\* SELECT emotion, COUNT(*) ... FROM emotion_logs WHERE session_id=? GROUP BY emotion
\* (AVG(confidence), the third column, is carried in the dict and never read
\* by the scorer)
get_session_summary(session_id) ==
    LET rows == {i \in DOMAIN emotion_logs : emotion_logs[i].session_id = session_id}
        keys == {emotion_logs[i].emotion : i \in rows}
    IN  [e \in keys |->
            [count |-> Cardinality({i \in rows : emotion_logs[i].emotion = e})]]

get_focus_summary_latest(session_id) ==
    LET rows == {i \in DOMAIN focus_logs : focus_logs[i].session_id = session_id}
        last == CHOOSE i \in rows : \A j \in rows : j <= i
    IN  IF rows = {} THEN << >>
        ELSE [s \in {focus_logs[last].status} |-> 1]

\* SELECT status, COUNT(*) FROM focus_logs WHERE session_id=? GROUP BY status
get_focus_summary(session_id) ==
    LET rows == {i \in DOMAIN focus_logs : focus_logs[i].session_id = session_id}
        keys == {focus_logs[i].status : i \in rows}
    IN  [s \in keys |-> Cardinality({i \in rows : focus_logs[i].status = s})]

positive_emotions == {"happy", "surprise"}
neutral_emotions == {"neutral"}
negative_emotions == {"angry", "sad", "fear", "disgust"}

\* the weight of one label, in tenths (1.0, 0.7, 0.4, else 0.5)
EmotionWeight(e) ==
    IF e \in positive_emotions THEN 10
    ELSE IF e \in neutral_emotions THEN 7
    ELSE IF e \in negative_emotions THEN 4
    ELSE 5

\* x or 1
OrOne(x) == IF x = 0 THEN 1 ELSE x

total_emotions_noguard(session_id) ==
    LET emotions == get_session_summary(session_id)
    IN  SumOver(DOMAIN emotions, [e \in DOMAIN emotions |-> emotions[e].count])

\* total_emotions = sum(v["count"] for v in emotions.values()) or 1
total_emotions(session_id) ==
    LET emotions == get_session_summary(session_id)
    IN  OrOne(SumOver(DOMAIN emotions, [e \in DOMAIN emotions |-> emotions[e].count]))

focus_total_known_statuses(session_id) ==
    LET focus_data == get_focus_summary(session_id)
        get(s) == IF s \in DOMAIN focus_data THEN focus_data[s] ELSE 0
    IN  OrOne(get("Focused") + get("Distracted"))

\* focus_total = sum(focus_data.values()) or 1
focus_total(session_id) ==
    LET focus_data == get_focus_summary(session_id)
    IN  OrOne(SumOver(DOMAIN focus_data, focus_data))

\* the scorer raises ZeroDivisionError: emotion_score divides by
\* total_emotions unguarded, focus_score only if focus_total > 0
ScoreRaises(session_id) ==
    total_emotions(session_id) = 0

emotion_score_neutral_default(session_id) ==
    LET emotions == get_session_summary(session_id)
        weighted == SumOver(DOMAIN emotions,
                            [e \in DOMAIN emotions |-> emotions[e].count * EmotionWeight(e)])
    IN  IF DOMAIN emotions = {} THEN <<50, 1>>
        ELSE <<10 * weighted, total_emotions(session_id)>>

\* emotion_score = (sum of count * weight / total_emotions) * 100, as a fraction
emotion_score(session_id) ==
    LET emotions == get_session_summary(session_id)
        weighted == SumOver(DOMAIN emotions,
                            [e \in DOMAIN emotions |-> emotions[e].count * EmotionWeight(e)])
    IN  <<10 * weighted, total_emotions(session_id)>>

\* focused = focus_data.get("Focused", 0)
\* focus_score = (focused / focus_total) * 100 if focus_total > 0 else 0
focus_score(session_id) ==
    LET focus_data == get_focus_summary(session_id)
        focused == IF "Focused" \in DOMAIN focus_data THEN focus_data["Focused"] ELSE 0
    IN  IF focus_total(session_id) > 0
        THEN <<100 * focused, focus_total(session_id)>>
        ELSE <<0, 1>>

\* round(num/den): the nearest integer, a half-way case to the even one
Round2(num, den) ==
    LET q == num \div den
        r == num % den
    IN  IF 2 * r > den \/ (2 * r = den /\ q % 2 = 1) THEN q + 1 ELSE q

calculate_productivity_score_equal_weights(session_id) ==
    LET fs == focus_score(session_id)
        es == emotion_score(session_id)
    IN  IF fs[2] = 0 \/ es[2] = 0 THEN 0
        ELSE Round2(70 * fs[1] * es[2] + 70 * es[1] * fs[2], fs[2] * es[2])

calculate_productivity_score_swapped_weights(session_id) ==
    LET fs == focus_score(session_id)
        es == emotion_score(session_id)
    IN  IF fs[2] = 0 \/ es[2] = 0 THEN 0
        ELSE Round2(30 * fs[1] * es[2] + 70 * es[1] * fs[2], fs[2] * es[2])

\* round((0.7 * focus_score) + (0.3 * emotion_score), 2), in hundredths
calculate_productivity_score(session_id) ==
    LET fs == focus_score(session_id)
        es == emotion_score(session_id)
    IN  IF fs[2] = 0 \/ es[2] = 0 THEN 0
        ELSE Round2(70 * fs[1] * es[2] + 30 * es[1] * fs[2], fs[2] * es[2])

\* SELECT productivity_score FROM sessions WHERE id=?; row[0] if row else None
get_productivity_score(session_id) ==
    IF session_id \in SessionIds THEN sessions[session_id].productivity_score ELSE NULL

\* INSERT INTO sessions; commit; return cursor.lastrowid
log_session(student_id) ==
    sessions' = Append(sessions, SessionRow(student_id, now))

log_emotion_latest_only(session_id, emotion, confidence) ==
    emotion_logs' =
        Append(SelectSeq(emotion_logs, LAMBDA r : r.session_id # session_id),
               [session_id |-> session_id, emotion |-> emotion, confidence |-> confidence])

\* INSERT INTO emotion_logs (session_id, timestamp, emotion, confidence)
\* (a row's place in the table stands for its id and its timestamp)
log_emotion(session_id, emotion, confidence) ==
    emotion_logs' = Append(emotion_logs,
        [session_id |-> session_id, emotion |-> emotion, confidence |-> confidence])

\* INSERT INTO focus_logs (session_id, timestamp, status)
log_focus(session_id, status) ==
    focus_logs' = Append(focus_logs, [session_id |-> session_id, status |-> status])

\* UPDATE sessions SET end_time=?, productivity_score=? WHERE id=?
\* (no row matches an id that is not in the table; a raising scorer leaves
\* the table as it is)
end_session(session_id) ==
    IF session_id \in SessionIds /\ ~ScoreRaises(session_id)
    THEN sessions' = [sessions EXCEPT
            ![session_id].end_time = Some(now),
            ![session_id].productivity_score =
                Some(calculate_productivity_score(session_id))]
    ELSE sessions' = sessions

\* cursor = conn.cursor(): no statement executed yet
NoRows == [query |-> "none", data |-> << >>]
NewCursor == [lastrowid |-> NULL, rows |-> NoRows]

\* the script threads of the server, each logged in as its own student
Threads == {1, 2}
login == [t \in Threads |-> t]
InitialThread ==
    [pc |-> "idle", session_id |-> NULL, emotions |-> << >>, focus_data |-> << >>]

\* a session of the store is Running until its end_time is set
IsRunning(session_id) ==
    session_id \in SessionIds /\ sessions[session_id].end_time = NULL
IsClosed(session_id) ==
    session_id \in SessionIds /\ sessions[session_id].end_time # NULL

----------------------------------------------------------------------------
(* pages/2_Student_Session.py: the page *)

\* the browser sessions of the page; both are logged in as the same student
Clients == {"tab1", "tab2"}
user_id == [c \in Clients |-> 1]

emotion_check_interval == 60
focus_check_interval == 15
emotion_time_limit == 2

SelectBackend_fer_first(deepface_imports, fer_imports) ==
    IF fer_imports THEN "fer"
    ELSE IF deepface_imports THEN "deepface"
    ELSE "None"

\* try: from deepface import DeepFace ... except: try: from fer import FER
SelectBackend(deepface_imports, fer_imports) ==
    IF deepface_imports THEN "deepface"
    ELSE IF fer_imports THEN "fer"
    ELSE "None"

Backends == {SelectBackend(d, f) : d \in BOOLEAN, f \in BOOLEAN}

\* if 'running' not in st.session_state: ... (the defaults of a new session)
InitialSessionState ==
    [running |-> FALSE, last_emotion |-> "Waiting...", focus_status |-> "Unknown",
     session_id |-> NULL, emotion_score |-> NULL, last_error |-> NULL,
     emotion_attempts |-> 0, emotion_successes |-> 0, emotion_logged_count |-> 0,
     focus_logged_count |-> 0, focused_count |-> 0, distracted_count |-> 0]

\* the script of a browser session: where it is ("idle": run to its end,
\* "camera": run again after Start Session, "loop": at the top of the while,
\* "display": at the Streamlit calls of an iteration), the locals of its
\* monitoring loop, and the button click the browser has sent and the script
\* has not handled yet.  A running script notices a click at its next
\* Streamlit call, stops there and is run again from the top, with new locals.
InitialLoop ==
    [pc |-> "idle", frame_count |-> 0, last_emotion_time |-> 0, clicked |-> "none"]

\* the server has one capture device: VideoCapture(0) opens for one loop at a time
CameraFree(c) == \A d \in Clients \ {c} : loop[d].pc \notin {"loop", "display"}

\* what the environment hands one iteration of the loop
DetectedEmotions == {"happy", "sad"}
\* a DeepFace percentage and a FER score, both in hundredths of one
DeepFaceScores == {3500, 10000}
FerScores == {35, 100}
\* the faces of a frame, in the detector's order, each with its number of eyes
FaceInputs == {<< >>, <<1>>, <<2>>, <<2, 0>>, <<0, 2>>}
ClassifierFailures == {"No face detected", "exception"}

StartSession_keeps_counters(c) ==
    /\ ~session_state[c].running
    /\ loop[c].pc = "idle"
    /\ Len(sessions) < MaxSessions
    /\ log_session(user_id[c])
    /\ session_state' = [session_state EXCEPT ![c] =
            [@ EXCEPT !.running = TRUE,
                      !.session_id = Some(Len(sessions) + 1),
                      !.last_error = NULL]]
    /\ loop' = [loop EXCEPT ![c].pc = "camera"]
    /\ UNCHANGED <<emotion_logs, focus_logs, now, envVars>>

\* st.button("Start Session", disabled=running): the handler and its st.rerun()
StartSession(c) ==
    /\ ~session_state[c].running
    /\ loop[c].pc = "idle"
    /\ Len(sessions) < MaxSessions
    /\ log_session(user_id[c])
    /\ session_state' = [session_state EXCEPT ![c] =
            [@ EXCEPT !.running = TRUE,
                      !.session_id = Some(Len(sessions) + 1),
                      !.last_error = NULL,
                      !.emotion_attempts = 0,
                      !.emotion_successes = 0,
                      !.emotion_logged_count = 0,
                      !.focus_logged_count = 0,
                      !.focused_count = 0,
                      !.distracted_count = 0]]
    /\ loop' = [loop EXCEPT ![c].pc = "camera"]
    /\ UNCHANGED <<emotion_logs, focus_logs, now, envVars>>

\* if st.session_state['running']: cap = cv2.VideoCapture(0)
\* if not cap.isOpened(): running = False  else: the loop's locals
OpenCamera(c) ==
    /\ session_state[c].running
    /\ loop[c].pc = "camera"
    /\ loop[c].clicked = "none"
    /\ \/ /\ session_state' = [session_state EXCEPT ![c].running = FALSE]
          /\ loop' = [loop EXCEPT ![c].pc = "idle"]
       \/ /\ CameraFree(c)
          /\ loop' = [loop EXCEPT ![c] =
                [@ EXCEPT !.pc = "loop", !.frame_count = 0, !.last_emotion_time = now]]
          /\ UNCHANGED session_state
    /\ UNCHANGED <<sessions, emotion_logs, focus_logs, now, envVars>>

\* the browser sends a click on "End Session" (enabled while running)
ClickEnd(c) ==
    /\ session_state[c].running
    /\ loop[c].clicked = "none"
    /\ loop' = [loop EXCEPT ![c].clicked = "end"]
    /\ UNCHANGED <<sessions, emotion_logs, focus_logs, now, session_state, envVars>>

EndSession_without_close(c) ==
    /\ loop[c].clicked = "end"
    /\ loop[c].pc # "loop"
    /\ session_state' = [session_state EXCEPT ![c].running = FALSE]
    /\ loop' = [loop EXCEPT ![c] = InitialLoop]
    /\ UNCHANGED <<sessions, emotion_logs, focus_logs, now, envVars>>

EndSession_leaves_running(c) ==
    /\ loop[c].clicked = "end"
    /\ loop[c].pc # "loop"
    /\ IF session_state[c].session_id # NULL
       THEN end_session(session_state[c].session_id[1])
       ELSE UNCHANGED sessions
    /\ loop' = [loop EXCEPT ![c] = [InitialLoop EXCEPT !.pc = "camera"]]
    /\ UNCHANGED <<emotion_logs, focus_logs, now, session_state, envVars>>

\* st.button("End Session", disabled=not running): the handler and its st.rerun()
EndSession(c) ==
    /\ loop[c].clicked = "end"
    /\ loop[c].pc # "loop"
    /\ session_state' = [session_state EXCEPT ![c].running = FALSE]
    /\ IF session_state[c].session_id # NULL
       THEN end_session(session_state[c].session_id[1])
       ELSE UNCHANGED sessions
    /\ loop' = [loop EXCEPT ![c] = InitialLoop]
    /\ UNCHANGED <<emotion_logs, focus_logs, now, envVars>>

detect_emotion_raw_percentage(st, answer) ==
    LET tried == [st EXCEPT !.emotion_attempts = @ + 1]
    IN  IF EMOTION_BACKEND = "None"
        THEN [st |-> tried, emotion |-> NULL, score |-> NULL,
              error |-> Some("No emotion detection backend available"),
              library |-> NULL]
        ELSE IF ~answer.ok
        THEN [st |-> tried, emotion |-> NULL, score |-> NULL,
              error |-> Some(answer.error), library |-> Some(EMOTION_BACKEND)]
        ELSE [st |-> [tried EXCEPT !.emotion_successes = @ + 1],
              emotion |-> Some(answer.emotion),
              score |-> Some(answer.score), error |-> NULL,
              library |-> Some(EMOTION_BACKEND)]

\* detect_emotion(frame) with the backend's answer: the session state after
\* the call, (emotion, score, error), and the library the call went to
\* (DeepFace.analyze or detector.detect_emotions)
detect_emotion(st, answer) ==
    LET tried == [st EXCEPT !.emotion_attempts = @ + 1]
    IN  IF EMOTION_BACKEND = "None"
        THEN [st |-> tried, emotion |-> NULL, score |-> NULL,
              error |-> Some("No emotion detection backend available"),
              library |-> NULL]
        ELSE IF ~answer.ok
        THEN [st |-> tried, emotion |-> NULL, score |-> NULL,
              error |-> Some(answer.error), library |-> Some(EMOTION_BACKEND)]
        ELSE IF EMOTION_BACKEND = "deepface"
        THEN [st |-> [tried EXCEPT !.emotion_successes = @ + 1],
              emotion |-> Some(answer.emotion),
              score |-> Some(answer.score \div 100), error |-> NULL,
              library |-> Some("deepface")]
        ELSE [st |-> [tried EXCEPT !.emotion_successes = @ + 1],
              emotion |-> Some(answer.emotion),
              score |-> Some(answer.score), error |-> NULL,
              library |-> Some("fer")]

\* what a backend may answer
Answers ==
    {[ok |-> FALSE, error |-> m] : m \in ClassifierFailures}
    \cup {[ok |-> TRUE, emotion |-> e, score |-> s] :
            e \in DetectedEmotions,
            s \in IF EMOTION_BACKEND = "deepface" THEN DeepFaceScores ELSE FerScores}

\* for (x, y, w, h) in faces: ... focus_status = "Focused" if eyes_detected >= 2
\* else "Distracted"; the status the last face leaves
RECURSIVE FocusOfFaces(_, _)
FocusOfFaces(faces, status) ==
    IF faces = << >> THEN status
    ELSE FocusOfFaces(Tail(faces), IF Head(faces) >= 2 THEN "Focused" ELSE "Distracted")

\* focus_status = "Distracted"; the loop over faces; if not face_detected: "Distracted"
DetectFocus(faces) == FocusOfFaces(faces, "Distracted")

EmotionDue_by_time_only(frame_count, current_time, last_emotion_time) ==
    (current_time - last_emotion_time) > emotion_time_limit

\* if frame_count % emotion_check_interval == 0
\*    or (current_time - last_emotion_time) > 2
EmotionDue(frame_count, current_time, last_emotion_time) ==
    \/ frame_count % emotion_check_interval = 0
    \/ (current_time - last_emotion_time) > emotion_time_limit

\* if error: last_error = error
\* elif emotion is not None and score is not None: the event is logged and
\* the displayed emotion and confidence are replaced
Logged(res) == res.error = NULL /\ res.emotion # NULL /\ res.score # NULL

\* emotion.capitalize()
Capitalize(emotion) ==
    CASE emotion = "happy" -> "Happy"
      [] emotion = "surprise" -> "Surprise"
      [] emotion = "neutral" -> "Neutral"
      [] emotion = "angry" -> "Angry"
      [] emotion = "sad" -> "Sad"
      [] emotion = "fear" -> "Fear"
      [] emotion = "disgust" -> "Disgust"
      [] OTHER -> emotion

\* f"{score:.1%}": the score as a percentage with one decimal, in tenths of
\* a percent (0.35 is "35.0%", 350)
FormatPercent(score) == score * 10

HandleEmotion(res) ==
    IF res.error # NULL
    THEN [res.st EXCEPT !.last_error = res.error]
    ELSE IF Logged(res)
    THEN [res.st EXCEPT !.emotion_logged_count = @ + 1,
                        !.last_emotion = Capitalize(res.emotion[1]),
                        !.emotion_score = Some(FormatPercent(res.score[1])),
                        !.last_error = NULL]
    ELSE res.st

NextEmotionTime_after_attempt(tick, logged, current_time, last_emotion_time) ==
    IF tick THEN current_time ELSE last_emotion_time

\* last_emotion_time = current_time, in the branch that logged the event
NextEmotionTime(tick, logged, current_time, last_emotion_time) ==
    IF logged THEN current_time ELSE last_emotion_time

CountFrame_swapped(st, focus_status) ==
    IF focus_status = "Focused"
    THEN [st EXCEPT !.distracted_count = @ + 1]
    ELSE [st EXCEPT !.focused_count = @ + 1]

\* if focus_status == "Focused": focused_count += 1  else: distracted_count += 1
CountFrame(st, focus_status) ==
    IF focus_status = "Focused"
    THEN [st EXCEPT !.focused_count = @ + 1]
    ELSE [st EXCEPT !.distracted_count = @ + 1]

FocusDue_every_other_tick(frame_count) ==
    frame_count % (2 * focus_check_interval) = 0

FocusDue_needs_backend(frame_count) ==
    frame_count % focus_check_interval = 0 /\ EMOTION_BACKEND # "None"

\* if frame_count % focus_check_interval == 0
FocusDue(frame_count) == frame_count % focus_check_interval = 0

FrameUnavailable_stops_session(c) ==
    /\ loop' = [loop EXCEPT ![c].pc = "display"]
    /\ session_state' = [session_state EXCEPT ![c].running = FALSE]
    /\ UNCHANGED <<storeVars, now, envVars>>

\* if not ret: st.warning("Failed to read frame"); time.sleep(0.1); continue
FrameUnavailable(c) ==
    /\ loop' = [loop EXCEPT ![c].pc = "display"]
    /\ UNCHANGED <<storeVars, now, session_state, envVars>>

\* one iteration of `while st.session_state['running']`, up to its first
\* Streamlit call, in a run of the loop that reads at most max_frames frames
Iteration(c, max_frames) ==
    /\ session_state[c].running
    /\ loop[c].pc = "loop"
    /\ \E ret \in BOOLEAN, answer \in Answers :
        IF ~ret
        THEN /\ answer = CHOOSE a \in Answers : TRUE
             /\ FrameUnavailable(c)
        ELSE
          LET frame_count == loop[c].frame_count + 1
              current_time == now
              sid == session_state[c].session_id[1]
              tick == /\ EmotionDue(frame_count, current_time, loop[c].last_emotion_time)
                      /\ EMOTION_BACKEND # "None"
              res == detect_emotion(session_state[c], answer)
              logged == tick /\ Logged(res)
              st1 == IF tick THEN HandleEmotion(res) ELSE session_state[c]
              focus_status == DetectFocus(scene)
              st2 == CountFrame(st1, focus_status)
              focus_tick == FocusDue(frame_count)
              st3 == IF focus_tick
                     THEN [st2 EXCEPT !.focus_status = focus_status,
                                      !.focus_logged_count = @ + 1]
                     ELSE st2
          IN  /\ loop[c].frame_count < max_frames
              /\ logged => Len(emotion_logs) < MaxEvents
              /\ ~tick => answer = CHOOSE a \in Answers : TRUE
              /\ IF logged
                 THEN log_emotion(sid, res.emotion[1], res.score[1])
                 ELSE UNCHANGED emotion_logs
              /\ IF focus_tick
                 THEN log_focus(sid, focus_status)
                 ELSE UNCHANGED focus_logs
              /\ session_state' = [session_state EXCEPT ![c] = st3]
              /\ loop' = [loop EXCEPT ![c] =
                    [@ EXCEPT !.pc = "display",
                              !.frame_count = frame_count,
                              !.last_emotion_time =
                                  NextEmotionTime(tick, logged, current_time, @)]]
              /\ UNCHANGED <<sessions, now, envVars>>

Cycle(c) == Iteration(c, MaxFrames)

\* the rest of the iteration: the displays, time.sleep, and
\* `if not st.session_state['running']: break`, which finds running set
UpdateDisplays(c) ==
    /\ loop[c].pc = "display"
    /\ loop[c].clicked = "none"
    /\ loop' = [loop EXCEPT ![c].pc =
            IF session_state[c].running THEN "loop" ELSE "idle"]
    /\ UNCHANGED <<storeVars, now, session_state, envVars>>

\* a second passes
Tick ==
    /\ now < MaxTime
    /\ now' = now + 1
    /\ UNCHANGED <<storeVars, pageVars, envVars>>

Init ==
    /\ sessions = << >>
    /\ emotion_logs = << >>
    /\ focus_logs = << >>
    /\ now = 0
    /\ session_state = [c \in Clients |-> InitialSessionState]
    /\ loop = [c \in Clients |-> InitialLoop]
    /\ imports \in [deepface : BOOLEAN, fer : BOOLEAN]
    /\ EMOTION_BACKEND = SelectBackend(imports.deepface, imports.fer)
    /\ scene \in FaceInputs
    /\ cursor = NewCursor
    /\ thread = [t \in Threads |-> InitialThread]

\* the page, in an environment where every operation falls in one second
Next ==
    \/ \E c \in Clients : StartSession(c)
    \/ \E c \in Clients : OpenCamera(c)
    \/ \E c \in Clients : ClickEnd(c)
    \/ \E c \in Clients : EndSession(c)
    \/ \E c \in Clients : Cycle(c)
    \/ \E c \in Clients : UpdateDisplays(c)

Spec == Init /\ [][Next]_vars

\* a script in its loop goes on to its next Streamlit call, and a script that
\* noticed a click is run again
LiveScenes == {<< >>, <<2>>}
LiveInit ==
    /\ Init
    /\ imports = [deepface |-> TRUE, fer |-> TRUE]
    /\ scene \in LiveScenes

LiveSpec ==
    /\ LiveInit
    /\ [][Next]_vars
    /\ \A c \in Clients : WF_vars(Cycle(c)) /\ WF_vars(EndSession(c))

----------------------------------------------------------------------------
(* One browser session over several seconds: the emotion tick falls due *)

OneTab == CHOOSE c \in Clients : TRUE

\* the first session of one browser session, from Start to End, while the
\* clock advances
SamplerNext ==
    \/ StartSession(OneTab) /\ sessions = << >>
    \/ OpenCamera(OneTab)
    \/ ClickEnd(OneTab)
    \/ EndSession(OneTab)
    \/ Cycle(OneTab)
    \/ UpdateDisplays(OneTab)
    \/ Tick

SamplerSpec == Init /\ [][SamplerNext]_vars

\* the same session with a loop that runs on to its second focus tick
CadenceNext ==
    \/ StartSession(OneTab) /\ sessions = << >>
    \/ OpenCamera(OneTab)
    \/ ClickEnd(OneTab)
    \/ EndSession(OneTab)
    \/ Iteration(OneTab, MaxCadenceFrames)
    \/ UpdateDisplays(OneTab)
    \/ Tick

CadenceInit == Init /\ scene \in LiveScenes

CadenceSpec == CadenceInit /\ [][CadenceNext]_vars

\* the same session with an active backend and a loop that runs on to the
\* emotion tick of its 60th frame
EmotionNext ==
    \/ StartSession(OneTab) /\ sessions = << >>
    \/ OpenCamera(OneTab)
    \/ ClickEnd(OneTab)
    \/ EndSession(OneTab)
    \/ Iteration(OneTab, MaxEmotionFrames)
    \/ UpdateDisplays(OneTab)
    \/ Tick

EmotionInit == Init /\ EMOTION_BACKEND # "None" /\ scene = <<2>>

EmotionSpec == EmotionInit /\ [][EmotionNext]_vars

\* one browser session that starts a session again after ending one
RestartNext ==
    \/ StartSession(OneTab)
    \/ OpenCamera(OneTab)
    \/ ClickEnd(OneTab)
    \/ EndSession(OneTab)
    \/ Cycle(OneTab)
    \/ UpdateDisplays(OneTab)
    \/ Tick

RestartSpec == EmotionInit /\ [][RestartNext]_vars

----------------------------------------------------------------------------
(* The same browser session over a store whose writes may fail *)

\* an iteration in which cursor.execute or conn.commit of log_emotion or of
\* log_focus raises: nothing in the loop catches it, so the script run ends
\* there with what it had assigned before the call, and the row is not stored
CycleAppendFails(c) ==
    /\ session_state[c].running
    /\ loop[c].pc = "loop"
    /\ loop[c].frame_count < MaxFrames
    /\ \E answer \in Answers, failing \in {"log_emotion", "log_focus"} :
          LET frame_count == loop[c].frame_count + 1
              sid == session_state[c].session_id[1]
              tick == /\ EmotionDue(frame_count, now, loop[c].last_emotion_time)
                      /\ EMOTION_BACKEND # "None"
              res == detect_emotion(session_state[c], answer)
              logged == tick /\ Logged(res)
              st1 == IF tick THEN HandleEmotion(res) ELSE session_state[c]
              focus_status == DetectFocus(scene)
              st2 == CountFrame(st1, focus_status)
          IN  /\ ~tick => answer = CHOOSE a \in Answers : TRUE
              /\ IF failing = "log_emotion"
                 THEN /\ logged
                      /\ session_state' = [session_state EXCEPT ![c] = res.st]
                      /\ UNCHANGED emotion_logs
                 ELSE /\ FocusDue(frame_count)
                      /\ logged => Len(emotion_logs) < MaxEvents
                      /\ IF logged
                         THEN log_emotion(sid, res.emotion[1], res.score[1])
                         ELSE UNCHANGED emotion_logs
                      /\ session_state' = [session_state EXCEPT ![c] =
                            [st2 EXCEPT !.focus_status = focus_status]]
              /\ loop' = [loop EXCEPT ![c] =
                    [InitialLoop EXCEPT !.pc = "loop_failed", !.clicked = loop[c].clicked]]
              /\ UNCHANGED <<sessions, focus_logs, now, envVars>>

\* the End Session handler when the UPDATE or the commit of end_session
\* raises: running was set to False before the call, st.rerun() is not reached
EndSessionFails(c) ==
    /\ loop[c].clicked = "end"
    /\ loop[c].pc # "loop"
    /\ session_state[c].session_id # NULL
    /\ session_state' = [session_state EXCEPT ![c].running = FALSE]
    /\ loop' = [loop EXCEPT ![c] = [InitialLoop EXCEPT !.pc = "end_failed"]]
    /\ UNCHANGED <<storeVars, now, envVars>>

FaultNext ==
    \/ SamplerNext
    \/ CycleAppendFails(OneTab)
    \/ EndSessionFails(OneTab)

FaultSpec == Init /\ [][FaultNext]_vars

----------------------------------------------------------------------------
(* db.py called directly: the scorer and end_session over drawn event tables *)

StoreEmotions == {"happy", "sad", UnknownEmotion}
StoreStatuses == FocusStatuses \cup {LegacyStatus}

EmotionRows ==
    {[session_id |-> i, emotion |-> e, confidence |-> 100] :
        i \in {1, 2}, e \in StoreEmotions}
FocusRows == {[session_id |-> i, status |-> s] : i \in {1, 2}, s \in StoreStatuses}

SeqsOf(S, n) == UNION {[1..k -> S] : k \in 0..n}

\* n rows of one kind for session 1
Repeat(row, n) == [i \in 1..n |-> row]

\* [happy] x 5, [neutral] x 5 and [Focused] x 8, [Distracted] x 2
ScenarioEmotionLogs ==
    Repeat([session_id |-> 1, emotion |-> "happy", confidence |-> 100], 5)
    \o Repeat([session_id |-> 1, emotion |-> "neutral", confidence |-> 100], 5)
ScenarioFocusLogs ==
    Repeat([session_id |-> 1, status |-> "Focused"], 8)
    \o Repeat([session_id |-> 1, status |-> "Distracted"], 2)

StoreInit ==
    /\ sessions = <<SessionRow(1, 0), SessionRow(1, 0)>>
    /\ \/ /\ emotion_logs \in SeqsOf(EmotionRows, MaxRows)
          /\ focus_logs \in SeqsOf(FocusRows, MaxRows - Len(emotion_logs))
       \/ /\ emotion_logs = ScenarioEmotionLogs
          /\ focus_logs = ScenarioFocusLogs
    /\ now = 0
    /\ session_state = [c \in Clients |-> InitialSessionState]
    /\ loop = [c \in Clients |-> InitialLoop]
    /\ imports = [deepface |-> FALSE, fer |-> FALSE]
    /\ EMOTION_BACKEND = SelectBackend(imports.deepface, imports.fer)
    /\ scene = << >>
    /\ cursor = NewCursor
    /\ thread = [t \in Threads |-> InitialThread]

\* end_session(session_id), for any row of the sessions table
CallEndSession(session_id) ==
    /\ end_session(session_id)
    /\ UNCHANGED <<emotion_logs, focus_logs, now, pageVars, envVars>>

StoreNext ==
    \/ \E session_id \in SessionIds : CallEndSession(session_id)
    \/ Tick

StoreSpec == StoreInit /\ [][StoreNext]_vars

\* the same tables with every call in one second
ScoreNext == \E session_id \in SessionIds : CallEndSession(session_id)

ScoreSpec == StoreInit /\ [][ScoreNext]_vars

----------------------------------------------------------------------------
(* db.py called directly, one call at a time, on a store that starts empty *)

CallEmotions == {"happy", "sad"}

DbInit ==
    /\ sessions = << >>
    /\ emotion_logs = << >>
    /\ focus_logs = << >>
    /\ now = 0
    /\ session_state = [c \in Clients |-> InitialSessionState]
    /\ loop = [c \in Clients |-> InitialLoop]
    /\ imports = [deepface |-> FALSE, fer |-> FALSE]
    /\ EMOTION_BACKEND = SelectBackend(imports.deepface, imports.fer)
    /\ scene = << >>
    /\ cursor = NewCursor
    /\ thread = [t \in Threads |-> InitialThread]

\* log_session(student_id)
CallLogSession(student_id) ==
    /\ Len(sessions) < MaxSessions
    /\ log_session(student_id)
    /\ UNCHANGED <<emotion_logs, focus_logs, now, pageVars, envVars>>

\* log_emotion(session_id, emotion, confidence)
CallLogEmotion(session_id, emotion, confidence) ==
    /\ Len(emotion_logs) + Len(focus_logs) < MaxCallRows
    /\ log_emotion(session_id, emotion, confidence)
    /\ UNCHANGED <<sessions, focus_logs, now, pageVars, envVars>>

\* log_focus(session_id, status)
CallLogFocus(session_id, status) ==
    /\ Len(emotion_logs) + Len(focus_logs) < MaxCallRows
    /\ log_focus(session_id, status)
    /\ UNCHANGED <<sessions, emotion_logs, now, pageVars, envVars>>

DbNext ==
    \/ \E student_id \in {user_id[c] : c \in Clients} : CallLogSession(student_id)
    \/ \E session_id \in 1..MaxSessions, emotion \in CallEmotions :
            CallLogEmotion(session_id, emotion, 100)
    \/ \E session_id \in 1..MaxSessions, status \in FocusStatuses :
            CallLogFocus(session_id, status)
    \/ \E session_id \in SessionIds : CallEndSession(session_id)

DbSpec == DbInit /\ [][DbNext]_vars

----------------------------------------------------------------------------
(* The dashboards' focus percentage of a session *)

\* SELECT status, timestamp FROM focus_logs WHERE session_id=? ORDER BY timestamp
\* (the statuses, in the order of the rows)
get_session_focus(session_id) ==
    LET row(r) == r.session_id = session_id
    IN  [k \in 1..Len(SelectSeq(focus_logs, row)) |-> SelectSeq(focus_logs, row)[k].status]

\* focus_counts.get(status, 0) after the loop over focus_data
StatusCount(focus_data, status) ==
    Cardinality({k \in DOMAIN focus_data : focus_data[k] = status})

student_focus_pct_distracted_only(focus_data) ==
    LET focused == StatusCount(focus_data, "Focused")
        unfocused == StatusCount(focus_data, "Distracted")
        total == focused + unfocused
    IN  IF total > 0 THEN <<focused * 100, total>> ELSE <<0, 1>>

\* 3_Dashboard.py: unfocused = get("Unfocused", 0) + get("Distracted", 0)
\* focus_pct = (focused / total * 100) if total > 0 else 0
student_focus_pct(focus_data) ==
    LET focused == StatusCount(focus_data, "Focused")
        unfocused == StatusCount(focus_data, "Unfocused")
                        + StatusCount(focus_data, "Distracted")
        total == focused + unfocused
    IN  IF total > 0 THEN <<focused * 100, total>> ELSE <<0, 1>>

\* 5_Teacher_dashboard.py: distracted = get("Distracted", 0) + get("Unfocused", 0)
teacher_focus_pct(focus_data) ==
    LET focused == StatusCount(focus_data, "Focused")
        distracted == StatusCount(focus_data, "Distracted")
                        + StatusCount(focus_data, "Unfocused")
        total == focused + distracted
    IN  IF total > 0 THEN <<focused * 100, total>> ELSE <<0, 1>>

----------------------------------------------------------------------------
(* db.py statement by statement: script threads on the shared cursor *)

\* calculate_productivity_score over the two summaries its queries fetched
ScoreOfSummaries(emotions, focus_data) ==
    LET total_e == OrOne(SumOver(DOMAIN emotions,
                                 [e \in DOMAIN emotions |-> emotions[e].count]))
        weighted == SumOver(DOMAIN emotions,
                            [e \in DOMAIN emotions |-> emotions[e].count * EmotionWeight(e)])
        total_f == OrOne(SumOver(DOMAIN focus_data, focus_data))
        focused == IF "Focused" \in DOMAIN focus_data THEN focus_data["Focused"] ELSE 0
    IN  Round2(70 * (100 * focused) * total_e + 30 * (10 * weighted) * total_f,
               total_f * total_e)

\* the thread's next statement is the one at `from`; it goes on to `to`
Goes(t, from, to) ==
    /\ thread[t].pc = from
    /\ thread' = [thread EXCEPT ![t].pc = to]

\* log_session: cursor.execute("INSERT INTO sessions ...")
ExecInsertSession(t) ==
    /\ Goes(t, "idle", "log_session_commit")
    /\ Len(sessions) < MaxSessions
    /\ log_session(login[t])
    /\ cursor' = [lastrowid |-> Some(Len(sessions) + 1), rows |-> NoRows]
    /\ UNCHANGED <<emotion_logs, focus_logs, now, pageVars, EMOTION_BACKEND, scene, imports>>

\* conn.commit() of log_session, log_emotion, log_focus and end_session
Commit(t) ==
    /\ \/ Goes(t, "log_session_commit", "log_session_return")
       \/ Goes(t, "log_commit", "ready")
       \/ Goes(t, "end_session_commit", "done")
    /\ UNCHANGED <<storeVars, now, pageVars, EMOTION_BACKEND, scene, imports, cursor>>

\* st.session_state['session_id'] = (return cursor.lastrowid)
ReturnLastRowId(t) ==
    /\ thread[t].pc = "log_session_return"
    /\ thread' = [thread EXCEPT ![t].pc = "ready", ![t].session_id = cursor.lastrowid]
    /\ UNCHANGED <<storeVars, now, pageVars, EMOTION_BACKEND, scene, imports, cursor>>

\* log_emotion(session_id, ...): cursor.execute("INSERT INTO emotion_logs ...")
ExecInsertEmotion(t) ==
    /\ Goes(t, "ready", "log_commit")
    /\ Len(emotion_logs) + Len(focus_logs) < MaxCallRows
    /\ log_emotion(thread[t].session_id[1], "happy", 100)
    /\ cursor' = [lastrowid |-> Some(Len(emotion_logs) + 1), rows |-> NoRows]
    /\ UNCHANGED <<sessions, focus_logs, now, pageVars, EMOTION_BACKEND, scene, imports>>

\* log_focus(session_id, status): cursor.execute("INSERT INTO focus_logs ...")
ExecInsertFocus(t, status) ==
    /\ Goes(t, "ready", "log_commit")
    /\ Len(emotion_logs) + Len(focus_logs) < MaxCallRows
    /\ log_focus(thread[t].session_id[1], status)
    /\ cursor' = [lastrowid |-> Some(Len(focus_logs) + 1), rows |-> NoRows]
    /\ UNCHANGED <<sessions, emotion_logs, now, pageVars, EMOTION_BACKEND, scene, imports>>

\* end_session -> calculate_productivity_score -> get_session_summary:
\* cursor.execute("SELECT emotion, COUNT(*), AVG(confidence) ...")
ExecSelectEmotions(t) ==
    /\ Goes(t, "ready", "summary_fetch")
    /\ cursor' = [cursor EXCEPT !.rows =
            [query |-> "emotion_summary",
             data |-> get_session_summary(thread[t].session_id[1])]]
    /\ UNCHANGED <<storeVars, now, pageVars, EMOTION_BACKEND, scene, imports>>

\* rows = cursor.fetchall(); {row[0]: {"count": row[1], "avg_confidence": row[2]}}
\* (row[2] of a two-column row raises IndexError, which ends the End handler)
FetchEmotions(t) ==
    /\ thread[t].pc = "summary_fetch"
    /\ thread' = [thread EXCEPT ![t] =
            IF cursor.rows.query \in {"focus_summary", "session_focus"}
               /\ cursor.rows.data # << >>
            THEN [@ EXCEPT !.pc = "raised"]
            ELSE [@ EXCEPT !.pc = "focus_execute", !.emotions = cursor.rows.data]]
    /\ cursor' = [cursor EXCEPT !.rows = NoRows]
    /\ UNCHANGED <<storeVars, now, pageVars, EMOTION_BACKEND, scene, imports>>

\* get_focus_summary: cursor.execute("SELECT status, COUNT(*) ...")
ExecSelectFocus(t) ==
    /\ Goes(t, "focus_execute", "focus_fetch")
    /\ cursor' = [cursor EXCEPT !.rows =
            [query |-> "focus_summary",
             data |-> get_focus_summary(thread[t].session_id[1])]]
    /\ UNCHANGED <<storeVars, now, pageVars, EMOTION_BACKEND, scene, imports>>

\* rows = cursor.fetchall(); {row[0]: row[1]}
\* (of (status, timestamp) rows the values are strings, and
\* sum(focus_data.values()) raises TypeError)
FetchFocus(t) ==
    /\ thread[t].pc = "focus_fetch"
    /\ thread' = [thread EXCEPT ![t] =
            IF cursor.rows.query = "session_focus" /\ cursor.rows.data # << >>
            THEN [@ EXCEPT !.pc = "raised"]
            ELSE IF cursor.rows.query = "emotion_summary"
            THEN [@ EXCEPT !.pc = "update",
                           !.focus_data = [e \in DOMAIN cursor.rows.data |->
                                               cursor.rows.data[e].count]]
            ELSE [@ EXCEPT !.pc = "update", !.focus_data = cursor.rows.data]]
    /\ cursor' = [cursor EXCEPT !.rows = NoRows]
    /\ UNCHANGED <<storeVars, now, pageVars, EMOTION_BACKEND, scene, imports>>

\* cursor.execute("UPDATE sessions SET end_time=?, productivity_score=? WHERE id=?")
ExecUpdate(t) ==
    /\ Goes(t, "update", "end_session_commit")
    /\ LET session_id == thread[t].session_id[1]
           score == ScoreOfSummaries(thread[t].emotions, thread[t].focus_data)
       IN  IF session_id \in SessionIds
           THEN sessions' = [sessions EXCEPT ![session_id].end_time = Some(now),
                                             ![session_id].productivity_score = Some(score)]
           ELSE UNCHANGED sessions
    /\ cursor' = [cursor EXCEPT !.rows = NoRows]
    /\ UNCHANGED <<emotion_logs, focus_logs, now, pageVars, EMOTION_BACKEND, scene, imports>>

\* a dashboard of a student whose session is over: get_session_focus's
\* cursor.execute("SELECT status, timestamp FROM focus_logs ...")
ExecSelectSessionFocus(t, session_id) ==
    /\ Goes(t, "done", "dashboard_fetch")
    /\ cursor' = [cursor EXCEPT !.rows =
            [query |-> "session_focus", data |-> get_session_focus(session_id)]]
    /\ UNCHANGED <<storeVars, now, pageVars, EMOTION_BACKEND, scene, imports>>

\* return cursor.fetchall() of get_session_focus
FetchSessionFocus(t) ==
    /\ Goes(t, "dashboard_fetch", "done")
    /\ cursor' = [cursor EXCEPT !.rows = NoRows]
    /\ UNCHANGED <<storeVars, now, pageVars, EMOTION_BACKEND, scene, imports>>

CursorNext ==
    \E t \in Threads :
        \/ ExecInsertSession(t)
        \/ Commit(t)
        \/ ReturnLastRowId(t)
        \/ ExecInsertEmotion(t)
        \/ \E status \in FocusStatuses : ExecInsertFocus(t, status)
        \/ ExecSelectEmotions(t)
        \/ FetchEmotions(t)
        \/ ExecSelectFocus(t)
        \/ FetchFocus(t)
        \/ ExecUpdate(t)
        \/ \E session_id \in SessionIds : ExecSelectSessionFocus(t, session_id)
        \/ FetchSessionFocus(t)

CursorSpec == DbInit /\ [][CursorNext]_vars

----------------------------------------------------------------------------
(* The claims *)

EmotionRowsOf(session_id) ==
    {i \in DOMAIN emotion_logs : emotion_logs[i].session_id = session_id}
FocusRowsOf(session_id) ==
    {i \in DOMAIN focus_logs : focus_logs[i].session_id = session_id}
SessionOf(c) == session_state[c].session_id[1]

\* C1 (as claimed): end_session on a session that is already Closed leaves
\* its stored end timestamp and productivity score as they are.
C1_ClosedSessionIsFinal ==
    [][\A s \in SessionIds : IsClosed(s) => sessions'[s] = sessions[s]]_vars

\* C2 (as claimed): no subject ever has two sessions whose end timestamp is
\* unset.
C2_OneRunningSessionPerSubject ==
    \A s1, s2 \in SessionIds :
        (/\ IsRunning(s1) /\ IsRunning(s2)
         /\ sessions[s1].student_id = sessions[s2].student_id) => s1 = s2

\* C3 (as claimed): whenever the running flag of a sampler is false, the
\* session it last sampled has an end timestamp and a final score in the store.
C3_NotRunningMeansClosed ==
    \A c \in Clients :
        (~session_state[c].running /\ session_state[c].session_id # NULL)
            => /\ IsClosed(SessionOf(c))
               /\ sessions[SessionOf(c)].productivity_score # NULL

\* C4 (as claimed): a Running session has neither an end timestamp nor a
\* productivity score, and a read of its score returns no value.
C4_RunningSessionHasNoScore ==
    \A s \in SessionIds :
        IsRunning(s) => /\ sessions[s].end_time = NULL
                        /\ get_productivity_score(s) = NULL

\* C5: once a click on End Session is sent while the session is Running, the
\* loop begins at most the iteration it is about to begin, whether its frame
\* is read or not, and appends nothing after it; the loop ends and the
\* session becomes Closed, with an end timestamp and a score.
C5_StopLeadsToClosed ==
    /\ [][\A c \in Clients :
            (loop[c].clicked = "end" /\ loop[c].pc # "loop") =>
                LET s == SessionOf(c)
                IN  /\ loop'[c].pc # "loop"
                    /\ loop'[c].frame_count <= loop[c].frame_count
                    /\ session_state'[c].focused_count
                            = session_state[c].focused_count
                    /\ session_state'[c].distracted_count
                            = session_state[c].distracted_count
                    /\ Cardinality({i \in DOMAIN emotion_logs' :
                                        emotion_logs'[i].session_id = s})
                            = Cardinality(EmotionRowsOf(s))
                    /\ Cardinality({i \in DOMAIN focus_logs' :
                                        focus_logs'[i].session_id = s})
                            = Cardinality(FocusRowsOf(s))]_vars
    /\ \A c \in Clients : \A s \in 1..MaxSessions :
        (/\ loop[c].clicked = "end"
         /\ session_state[c].session_id = Some(s)
         /\ IsRunning(s))
          ~> (/\ ~session_state[c].running
              /\ loop[c].pc = "idle"
              /\ IsClosed(s)
              /\ sessions[s].productivity_score # NULL)

\* a sampler that read frames and logged a focus event was stopped, and its
\* session is Closed
C5_Witness ==
    \E c \in Clients :
        /\ session_state[c].session_id # NULL
        /\ ~session_state[c].running
        /\ session_state[c].focus_logged_count > 0
        /\ FocusRowsOf(SessionOf(c)) # {}
        /\ IsClosed(SessionOf(c))

\* C6: over every drawn pair of event tables, with unknown labels and
\* statuses, the scorer's value and every stored score lie in [0, 100].
C6_ScoreInRange ==
    \A s \in SessionIds :
        /\ calculate_productivity_score(s) \in 0..10000
        /\ sessions[s].productivity_score # NULL
        /\ sessions[s].productivity_score[1] \in 0..10000

\* a session with an unknown label and a legacy status was closed with a
\* score strictly inside the range
C6_Witness ==
    \E s \in SessionIds :
        /\ IsClosed(s)
        /\ \E i \in EmotionRowsOf(s) : emotion_logs[i].emotion = UnknownEmotion
        /\ \E i \in FocusRowsOf(s) : focus_logs[i].status = LegacyStatus
        /\ \E i \in FocusRowsOf(s) : focus_logs[i].status = "Focused"
        /\ sessions[s].productivity_score[1] \in 1..9999

\* the weight table of the reference formula, in tenths
RefWeight(e) ==
    CASE e \in {"happy", "surprise"} -> 10
      [] e = "neutral" -> 7
      [] e \in {"angry", "sad", "fear", "disgust"} -> 4
      [] OTHER -> 5

\* the reference value 0.7 * focus_score + 0.3 * emotion_score of a session,
\* in hundredths, as the fraction <<num, den>>, summed event by event
RefValue(s) ==
    LET nf == Cardinality(FocusRowsOf(s))
        ne == Cardinality(EmotionRowsOf(s))
        focused == Cardinality({i \in FocusRowsOf(s) : focus_logs[i].status = "Focused"})
        weights == SumOver(EmotionRowsOf(s),
                           [i \in EmotionRowsOf(s) |-> RefWeight(emotion_logs[i].emotion)])
        ft == IF nf = 0 THEN 1 ELSE nf
        te == IF ne = 0 THEN 1 ELSE ne
    IN  <<7000 * focused * te + 300 * weights * ft, ft * te>>

\* k is the hundredth nearest to the fraction v
IsNearest(k, v) ==
    LET d == v[1] - k * v[2]
    IN  2 * (IF d < 0 THEN -d ELSE d) <= v[2]

\* C7: the scorer's value is the reference formula's, with the claimed weight
\* of every label; the scenario of 8 Focused, 2 Distracted, 5 happy and
\* 5 neutral scores 81.5; a Closed session stores that value.
C7_ScoreIsReferenceFormula ==
    /\ \A e \in KnownEmotions \cup {UnknownEmotion} : EmotionWeight(e) = RefWeight(e)
    /\ \A s \in SessionIds :
        /\ IsNearest(calculate_productivity_score(s), RefValue(s))
        /\ IsClosed(s) => /\ sessions[s].productivity_score # NULL
                          /\ IsNearest(sessions[s].productivity_score[1], RefValue(s))
    /\ (emotion_logs = ScenarioEmotionLogs /\ focus_logs = ScenarioFocusLogs)
        => calculate_productivity_score(1) = 8150

\* the scenario's session was closed and stores 81.5
C7_Witness ==
    /\ emotion_logs = ScenarioEmotionLogs
    /\ focus_logs = ScenarioFocusLogs
    /\ IsClosed(1)
    /\ sessions[1].productivity_score = Some(8150)

\* the two sessions hold the same multiset of labels and of statuses
SameMultisets(s1, s2) ==
    /\ \A e \in StoreEmotions :
        Cardinality({i \in EmotionRowsOf(s1) : emotion_logs[i].emotion = e})
            = Cardinality({i \in EmotionRowsOf(s2) : emotion_logs[i].emotion = e})
    /\ \A f \in StoreStatuses :
        Cardinality({i \in FocusRowsOf(s1) : focus_logs[i].status = f})
            = Cardinality({i \in FocusRowsOf(s2) : focus_logs[i].status = f})

\* the labels, or the statuses, of a session in the order they were appended
RECURSIVE LabelsInOrder(_, _)
LabelsInOrder(logs, s) ==
    IF logs = << >> THEN << >>
    ELSE IF Head(logs).session_id = s
         THEN <<Head(logs)>> \o LabelsInOrder(Tail(logs), s)
         ELSE LabelsInOrder(Tail(logs), s)
OrderOf(logs, s) ==
    LET rows == LabelsInOrder(logs, s)
    IN  [i \in DOMAIN rows |->
            IF "emotion" \in DOMAIN rows[i] THEN rows[i].emotion ELSE rows[i].status]

\* C8: two sessions whose logs hold the same multisets of labels and of
\* statuses, appended in any order, get the same score, computed and stored.
C8_ScoreIsOrderIndependent ==
    \A s1, s2 \in SessionIds :
        SameMultisets(s1, s2) =>
            /\ calculate_productivity_score(s1) = calculate_productivity_score(s2)
            /\ (IsClosed(s1) /\ IsClosed(s2))
                => sessions[s1].productivity_score = sessions[s2].productivity_score

\* two Closed sessions hold the same two statuses in opposite orders
C8_Witness ==
    /\ SameMultisets(1, 2)
    /\ OrderOf(focus_logs, 1) = <<"Focused", "Distracted">>
    /\ OrderOf(focus_logs, 2) = <<"Distracted", "Focused">>
    /\ IsClosed(1) /\ IsClosed(2)
    /\ sessions[1].productivity_score = Some(3500)

\* C9: the scorer never raises, and a session with no emotion event and no
\* focus event scores 0.0 and is closed with that score.
C9_EmptyLogScoresZero ==
    \A s \in SessionIds :
        /\ ~ScoreRaises(s)
        /\ (EmotionRowsOf(s) = {} /\ FocusRowsOf(s) = {})
            => /\ calculate_productivity_score(s) = 0
               /\ IsClosed(s) => sessions[s].productivity_score = Some(0)

\* a session without any event was closed while the other session has events
C9_Witness ==
    \E s, t \in SessionIds :
        /\ EmotionRowsOf(s) = {} /\ FocusRowsOf(s) = {}
        /\ EmotionRowsOf(t) # {} /\ FocusRowsOf(t) # {}
        /\ IsClosed(s)
        /\ sessions[s].end_time # NULL
        /\ sessions[s].productivity_score = Some(0)

\* C10: for a session with at least one focus event the focus_score term is
\* in [0, 100], and it is 100 exactly when every focus event is Focused.
C10_FocusScoreRange ==
    \A s \in SessionIds :
        FocusRowsOf(s) # {} =>
            LET fs == focus_score(s)
            IN  /\ fs[2] > 0
                /\ 0 <= fs[1]
                /\ fs[1] <= 100 * fs[2]
                /\ (fs[1] = 100 * fs[2])
                    <=> (\A i \in FocusRowsOf(s) : focus_logs[i].status = "Focused")

\* a session with Focused events only was closed with the full focus share,
\* and the other has a Focused event beside one that is not
C10_Witness ==
    \E s, t \in SessionIds :
        /\ Cardinality(FocusRowsOf(s)) >= 2
        /\ \A i \in FocusRowsOf(s) : focus_logs[i].status = "Focused"
        /\ EmotionRowsOf(s) = {}
        /\ IsClosed(s)
        /\ sessions[s].productivity_score = Some(7000)
        /\ \E i, j \in FocusRowsOf(t) :
            focus_logs[i].status = "Focused" /\ focus_logs[j].status = LegacyStatus

\* C11: a sampler that was stopped after its session got focus events and no
\* emotion event (no backend, or every classification failed) left the
\* session Closed, and the stored score is 0.7 times the share of Focused
\* events, rounded to hundredths: 0.0 when every focus event is Distracted.
C11_FocusOnlySessionCloses ==
    \A c \in Clients :
        (/\ ~session_state[c].running
         /\ session_state[c].session_id # NULL
         /\ FocusRowsOf(SessionOf(c)) # {}
         /\ EmotionRowsOf(SessionOf(c)) = {})
        => LET s == SessionOf(c)
               total == Cardinality(FocusRowsOf(s))
               focused == Cardinality({i \in FocusRowsOf(s) :
                                          focus_logs[i].status = "Focused"})
           IN  /\ IsClosed(s)
               /\ sessions[s].productivity_score # NULL
               /\ IsNearest(sessions[s].productivity_score[1], <<7000 * focused, total>>)
               /\ focused = 0 => sessions[s].productivity_score = Some(0)

\* a backend was active and failed on every emotion tick of a session with
\* a Focused event; the session is Closed with the score 70.0
C11_Witness ==
    \E c \in Clients :
        /\ ~session_state[c].running
        /\ session_state[c].session_id # NULL
        /\ session_state[c].emotion_attempts > 0
        /\ session_state[c].emotion_successes = 0
        /\ EmotionRowsOf(SessionOf(c)) = {}
        /\ \E i \in FocusRowsOf(SessionOf(c)) : focus_logs[i].status = "Focused"
        /\ IsClosed(SessionOf(c))
        /\ sessions[SessionOf(c)].productivity_score = Some(7000)

\* the script of c is inside its monitoring loop
InLoop(c) == session_state[c].running /\ loop[c].pc \in {"loop", "display"}

\* C12: with no backend active no emotion event is ever in the log, a
\* sampler in its loop has appended one focus event for every 15 frames it
\* read, and only a click on End Session takes a sampler out of its loop.
C12_NoBackendFocusOnly ==
    /\ [](EMOTION_BACKEND = "None" =>
            /\ emotion_logs = << >>
            /\ \A c \in Clients : InLoop(c) =>
                    Cardinality(FocusRowsOf(SessionOf(c)))
                        = loop[c].frame_count \div focus_check_interval)
    /\ [][\A c \in Clients :
            (EMOTION_BACKEND = "None" /\ InLoop(c) /\ loop[c].clicked = "none")
                => /\ session_state'[c].running
                   /\ loop'[c].pc \in {"loop", "display"}]_vars

\* no backend, an emotion tick has been due for a while, and the sampler has
\* appended a focus event and is still in its loop
C12_Witness ==
    \E c \in Clients :
        /\ EMOTION_BACKEND = "None"
        /\ InLoop(c)
        /\ now - loop[c].last_emotion_time > emotion_time_limit
        /\ loop[c].frame_count >= focus_check_interval
        /\ FocusRowsOf(SessionOf(c)) # {}

\* the step reads a frame for c while an emotion tick is due
ReadsFrameAtEmotionTick(c) ==
    /\ InLoop(c)
    /\ loop'[c].frame_count = loop[c].frame_count + 1
    /\ EmotionDue(loop'[c].frame_count, now, loop[c].last_emotion_time)

\* C13 (as claimed): at an emotion tick whose classification fails (no face,
\* no backend, an exception) no emotion event is appended, the displayed
\* emotion and confidence stay, last_error holds the error and the same
\* cycle counts its frame's focus status; at a tick whose classification
\* succeeds exactly one event is appended and the display shows its label
\* and confidence.
C13_ClassificationOutcome ==
    [][\A c \in Clients : ReadsFrameAtEmotionTick(c) =>
        /\ session_state'[c].focused_count + session_state'[c].distracted_count
              = session_state[c].focused_count + session_state[c].distracted_count + 1
        /\ session_state'[c].running
        /\ IF emotion_logs' = emotion_logs
           THEN /\ session_state'[c].last_emotion = session_state[c].last_emotion
                /\ session_state'[c].emotion_score = session_state[c].emotion_score
                /\ session_state'[c].last_error # NULL
           ELSE /\ Len(emotion_logs') = Len(emotion_logs) + 1
                /\ LET row == emotion_logs'[Len(emotion_logs')]
                   IN  /\ row.session_id = SessionOf(c)
                       /\ session_state'[c].last_emotion = Capitalize(row.emotion)
                       /\ session_state'[c].emotion_score
                            = Some(FormatPercent(row.confidence))
                       /\ session_state'[c].last_error = NULL]_vars

\* C14: an iteration that reads no frame (its frame counter does not
\* advance) leaves the session state, the loop's locals and the three
\* tables as they were, with the session Running, however many times that
\* happens; the frames counted and the focus events appended are those of
\* the frames that were read.
C14_FrameFailureSkipsCycle ==
    /\ [][\A c \in Clients :
            (/\ InLoop(c)
             /\ loop[c].pc = "loop"
             /\ loop'[c].pc # "loop"
             /\ loop'[c].frame_count = loop[c].frame_count)
            => /\ session_state'[c] = session_state[c]
               /\ loop'[c] = [loop[c] EXCEPT !.pc = "display"]
               /\ storeVars' = storeVars
               /\ IsRunning(SessionOf(c))]_vars
    /\ [](\A c \in Clients : InLoop(c) =>
            /\ session_state[c].focused_count + session_state[c].distracted_count
                  = loop[c].frame_count
            /\ session_state[c].focus_logged_count
                  = loop[c].frame_count \div focus_check_interval)

\* the first read of a loop failed: the script is at its warning with no
\* frame counted and the session Running
C14_Witness ==
    \E c \in Clients :
        /\ InLoop(c)
        /\ loop[c].pc = "display"
        /\ loop[c].frame_count = 0
        /\ IsRunning(SessionOf(c))

\* C15 (as claimed): whether or not an append to the store fails, a sampler
\* in its loop with no click pending is still in its loop after every step,
\* its running flag set and its session Running.
C15_AppendFailureKeepsLoop ==
    [][\A c \in Clients :
        (InLoop(c) /\ loop[c].clicked = "none")
            => /\ loop'[c].pc \in {"loop", "display"}
               /\ session_state'[c].running
               /\ sessions'[SessionOf(c)].end_time = NULL]_vars

\* C16 (as claimed): after an End Session handler whose store write failed,
\* the session has no end timestamp and the page still holds it as running,
\* so that End Session can be clicked again.
C16_FailedCloseStaysRunning ==
    \A c \in Clients :
        loop[c].pc = "end_failed"
            => /\ IsRunning(SessionOf(c))
               /\ session_state[c].running

\* some face of the camera's view has at least two eyes found in it
FaceWithTwoEyes == \E k \in DOMAIN scene : scene[k] >= 2

\* C17 (as claimed): every frame read is counted, and every focus event is
\* logged, as Focused if a face with at least two eyes found in it is in
\* view, and as Distracted otherwise.
C17_FocusedIffTwoEyes ==
    /\ \A c \in Clients : InLoop(c) =>
            IF FaceWithTwoEyes
            THEN session_state[c].distracted_count = 0
            ELSE session_state[c].focused_count = 0
    /\ \A i \in DOMAIN focus_logs :
            focus_logs[i].status = IF FaceWithTwoEyes THEN "Focused" ELSE "Distracted"

C19_ConfidenceNormalized ==
    \A i \in DOMAIN emotion_logs :
        LET confidence == emotion_logs[i].confidence
        IN  /\ confidence \in 0..100
            /\ EMOTION_BACKEND = "deepface" => 100 * confidence \in DeepFaceScores
            /\ EMOTION_BACKEND = "fer" => confidence \in FerScores

\* DeepFace reported 35 percent and the event in the log has confidence 0.35
C19_Witness ==
    /\ EMOTION_BACKEND = "deepface"
    /\ \E i \in DOMAIN emotion_logs : emotion_logs[i].confidence = 35

\* C20: a step appends a focus event exactly when it reads a frame whose
\* count is a multiple of 15, whatever the emotion classification of that
\* iteration did; a sampler that has read n frames has appended n div 15
\* focus events to its session.
C20_FocusCadence ==
    /\ [][\A c \in Clients : InLoop(c) =>
            LET read == loop'[c].frame_count = loop[c].frame_count + 1
                due == read /\ loop'[c].frame_count % focus_check_interval = 0
            IN  /\ due => /\ Len(focus_logs') = Len(focus_logs) + 1
                          /\ focus_logs'[Len(focus_logs')].session_id = SessionOf(c)
                /\ ~due => focus_logs' = focus_logs]_vars
    /\ [](\A c \in Clients : InLoop(c) =>
            /\ Cardinality(FocusRowsOf(SessionOf(c)))
                  = loop[c].frame_count \div focus_check_interval
            /\ session_state[c].focus_logged_count
                  = loop[c].frame_count \div focus_check_interval)

\* 30 frames read and two focus events appended, in a session whose
\* classifier has both failed and succeeded
C20_Witness ==
    \E c \in Clients :
        /\ InLoop(c)
        /\ loop[c].frame_count = 2 * focus_check_interval
        /\ Cardinality(FocusRowsOf(SessionOf(c))) = 2
        /\ EmotionRowsOf(SessionOf(c)) # {}
        /\ session_state[c].emotion_attempts > session_state[c].emotion_successes

\* C21: with a backend active, a step that reads a frame attempts a
\* classification exactly when the frame's count is a multiple of 60 or more
\* than 2 seconds have passed since the loop's reference time; a loop that
\* has read 60 frames has attempted at least one.
C21_EmotionCadence ==
    /\ [][\A c \in Clients :
            (/\ InLoop(c)
             /\ EMOTION_BACKEND # "None"
             /\ loop'[c].frame_count = loop[c].frame_count + 1)
            => LET due == \/ loop'[c].frame_count % 60 = 0
                          \/ now - loop[c].last_emotion_time > 2
               IN  session_state'[c].emotion_attempts
                     = session_state[c].emotion_attempts + (IF due THEN 1 ELSE 0)]_vars
    /\ [](\A c \in Clients :
            (InLoop(c) /\ EMOTION_BACKEND # "None" /\ loop[c].frame_count >= 60)
                => session_state[c].emotion_attempts >= 1)

\* 60 frames read within the second the loop started in: the one attempt is
\* the one of the 60th frame
C21_Witness ==
    \E c \in Clients :
        /\ InLoop(c)
        /\ EMOTION_BACKEND # "None"
        /\ loop[c].frame_count = 60
        /\ now = 0
        /\ session_state[c].emotion_attempts = 1

\* the face the detector lists last has at least two eyes found in it
FaceWithTwoEyesLast == scene # << >> /\ scene[Len(scene)] >= 2

\* the focus events of a session with the given status
EventsWithStatus(session_id, status) ==
    {i \in FocusRowsOf(session_id) : focus_logs[i].status = status}

\* C22 (as claimed): while a sampler is in its loop, focused_count is the
\* number of Focused events and distracted_count the number of Distracted
\* events of its session.
C22_CountersMirrorLog ==
    \A c \in Clients : InLoop(c) =>
        /\ session_state[c].focused_count
              = Cardinality(EventsWithStatus(SessionOf(c), "Focused"))
        /\ session_state[c].distracted_count
              = Cardinality(EventsWithStatus(SessionOf(c), "Distracted"))

\* C22 (amended): every step that reads a frame adds one to focused_count if
\* the frame is found Focused and one to distracted_count otherwise, focus
\* tick or not; a focus event appended by the step has the status that was
\* counted; so the two counters together hold at least 15 frames for every
\* focus event the loop has logged.
C22_CountersCountFrames ==
    /\ [][\A c \in Clients :
            (InLoop(c) /\ loop'[c].frame_count = loop[c].frame_count + 1)
            => LET status == IF FaceWithTwoEyesLast THEN "Focused" ELSE "Distracted"
                   f == IF status = "Focused" THEN 1 ELSE 0
               IN  /\ session_state'[c].focused_count
                         = session_state[c].focused_count + f
                   /\ session_state'[c].distracted_count
                         = session_state[c].distracted_count + (1 - f)
                   /\ focus_logs' # focus_logs
                        => focus_logs'[Len(focus_logs')].status = status]_vars
    /\ [](\A c \in Clients : InLoop(c) =>
            session_state[c].focused_count + session_state[c].distracted_count
                >= 15 * session_state[c].focus_logged_count)

\* 15 frames found Focused are counted and one Focused event is in the log
C22_Witness ==
    \E c \in Clients :
        /\ InLoop(c)
        /\ session_state[c].focused_count = focus_check_interval
        /\ Cardinality(EventsWithStatus(SessionOf(c), "Focused")) = 1

\* the two lists hold the same faces, possibly in another order
SameFaces(f1, f2) ==
    /\ Len(f1) = Len(f2)
    /\ \A eyes \in 0..3 :
        Cardinality({k \in DOMAIN f1 : f1[k] = eyes})
            = Cardinality({k \in DOMAIN f2 : f2[k] = eyes})

\* C23 (as claimed): the status counted for a frame does not depend on the
\* order in which the detector lists the faces: the same faces listed in any
\* other order give the status that was counted.
C23_FaceOrderIrrelevant ==
    \A c \in Clients :
        (InLoop(c) /\ loop[c].frame_count >= 1)
        => \A faces \in FaceInputs :
              SameFaces(faces, scene)
              => (session_state[c].focused_count >= 1
                    <=> DetectFocus(faces) = "Focused")

\* the rows of a table before its last one
Front(table) == SubSeq(table, 1, Len(table) - 1)

\* C24: log_emotion and log_focus each add exactly one event, of the named
\* session, after the existing events of their table and leave the other
\* event table and the sessions table as they are; log_session and
\* end_session leave both event tables as they are.
C24_EventLogAppendOnly ==
    [][/\ \A session_id \in 1..MaxSessions, emotion \in CallEmotions :
            CallLogEmotion(session_id, emotion, 100)
            => /\ Len(emotion_logs') = Len(emotion_logs) + 1
               /\ Front(emotion_logs') = emotion_logs
               /\ emotion_logs'[Len(emotion_logs')].session_id = session_id
               /\ emotion_logs'[Len(emotion_logs')].emotion = emotion
       /\ \A session_id \in 1..MaxSessions, status \in FocusStatuses :
            CallLogFocus(session_id, status)
            => /\ Len(focus_logs') = Len(focus_logs) + 1
               /\ Front(focus_logs') = focus_logs
               /\ focus_logs'[Len(focus_logs')].session_id = session_id
               /\ focus_logs'[Len(focus_logs')].status = status
       /\ emotion_logs' # emotion_logs
            => focus_logs' = focus_logs /\ sessions' = sessions
       /\ focus_logs' # focus_logs
            => emotion_logs' = emotion_logs /\ sessions' = sessions
       /\ sessions' # sessions
            => emotion_logs' = emotion_logs /\ focus_logs' = focus_logs]_vars

\* a second emotion event was added to a session, next to a focus event of
\* another session, and the first session was closed
C24_Witness ==
    /\ Len(sessions) = 2
    /\ Cardinality(EmotionRowsOf(1)) = 2
    /\ FocusRowsOf(2) # {}
    /\ IsClosed(1)

\* the two fractions are one number
SameFraction(p, q) == p[1] * q[2] = q[1] * p[2]

\* session s2 holds the events of session s1 with some of the Distracted
\* events, possibly none, relabelled Unfocused
Relabelled(s1, s2) ==
    /\ \A e \in StoreEmotions \cup KnownEmotions :
        Cardinality({i \in EmotionRowsOf(s1) : emotion_logs[i].emotion = e})
            = Cardinality({i \in EmotionRowsOf(s2) : emotion_logs[i].emotion = e})
    /\ Cardinality(EventsWithStatus(s1, "Focused"))
            = Cardinality(EventsWithStatus(s2, "Focused"))
    /\ EventsWithStatus(s1, LegacyStatus) = {}
    /\ Cardinality(EventsWithStatus(s1, "Distracted"))
            = Cardinality(EventsWithStatus(s2, "Distracted"))
                + Cardinality(EventsWithStatus(s2, LegacyStatus))

\* C25: a session whose events are another session's with Distracted events
\* relabelled Unfocused has the same productivity score, computed and stored
\* at its close, and the same focus percentage on the student and on the
\* teacher dashboard.
C25_UnfocusedIsDistracted ==
    \A s1, s2 \in SessionIds :
        Relabelled(s1, s2)
        => /\ calculate_productivity_score(s1) = calculate_productivity_score(s2)
           /\ (IsClosed(s1) /\ IsClosed(s2))
                => sessions[s1].productivity_score = sessions[s2].productivity_score
           /\ SameFraction(student_focus_pct(get_session_focus(s1)),
                           student_focus_pct(get_session_focus(s2)))
           /\ SameFraction(teacher_focus_pct(get_session_focus(s1)),
                           teacher_focus_pct(get_session_focus(s2)))

\* two closed sessions, one with a Focused and a Distracted event, the other
\* with a Focused and an Unfocused event
C25_Witness ==
    /\ IsClosed(1) /\ IsClosed(2)
    /\ Relabelled(1, 2)
    /\ EventsWithStatus(1, "Focused") # {}
    /\ EventsWithStatus(1, "Distracted") # {}
    /\ EventsWithStatus(2, LegacyStatus) # {}
    /\ sessions[1].productivity_score = Some(3500)

C27_CountersMatchStore ==
    /\ [][\A c \in Clients :
            session_state'[c].session_id # session_state[c].session_id
            => /\ session_state'[c].emotion_attempts = 0
               /\ session_state'[c].emotion_successes = 0
               /\ session_state'[c].emotion_logged_count = 0
               /\ session_state'[c].focus_logged_count = 0
               /\ session_state'[c].focused_count = 0
               /\ session_state'[c].distracted_count = 0]_vars
    /\ [](\A c \in Clients :
            session_state[c].session_id # NULL
            => /\ session_state[c].emotion_logged_count
                    <= session_state[c].emotion_successes
               /\ session_state[c].emotion_successes
                    <= session_state[c].emotion_attempts
               /\ session_state[c].emotion_logged_count
                    = Cardinality(EmotionRowsOf(SessionOf(c)))
               /\ session_state[c].focus_logged_count
                    = Cardinality(FocusRowsOf(SessionOf(c))))

\* a second session runs, with a focus event of its own and no emotion
\* event, after a first one that logged an emotion event and a focus event
C27_Witness ==
    \E c \in Clients :
        /\ session_state[c].session_id = Some(2)
        /\ EmotionRowsOf(1) # {} /\ FocusRowsOf(1) # {}
        /\ session_state[c].emotion_logged_count = 0
        /\ session_state[c].focus_logged_count = 1

\* C28 (as claimed): the id log_session returned to a script thread is the
\* id of a sessions row, and that row is the one the thread inserted for its
\* student.
C28_OwnSessionId ==
    \A t \in Threads :
        thread[t].session_id # NULL
        => /\ thread[t].session_id[1] \in SessionIds
           /\ sessions[thread[t].session_id[1]].student_id = login[t]

\* C29 (as claimed): the score the UPDATE of end_session writes is the
\* scoring function of the events the session holds.
C29_ScoreOfOwnEvents ==
    [][\A t \in Threads :
        (/\ thread[t].pc = "update"
         /\ thread'[t].pc = "end_session_commit"
         /\ thread[t].session_id[1] \in SessionIds)
        => sessions'[thread[t].session_id[1]].productivity_score
             = Some(calculate_productivity_score(thread[t].session_id[1]))]_vars

\* C30: a step that reads a frame moves the loop's time reference, to the
\* current time, exactly if its classification succeeded; and if more than
\* 2 seconds had passed since the reference, the step makes an attempt and,
\* unless the attempt succeeds, the next frame is overdue as well.
C30_ReferenceMovesOnSuccess ==
    [][\A c \in Clients :
        (/\ InLoop(c)
         /\ EMOTION_BACKEND # "None"
         /\ loop'[c].frame_count = loop[c].frame_count + 1)
        => LET succeeded == session_state'[c].emotion_successes
                              = session_state[c].emotion_successes + 1
               overdue == now - loop[c].last_emotion_time > 2
           IN  /\ loop'[c].last_emotion_time
                    = IF succeeded THEN now ELSE loop[c].last_emotion_time
               /\ ~succeeded => session_state'[c].emotion_successes
                                  = session_state[c].emotion_successes
               /\ overdue => session_state'[c].emotion_attempts
                                  = session_state[c].emotion_attempts + 1
               /\ (overdue /\ ~succeeded)
                    => now' - loop'[c].last_emotion_time > 2]_vars

\* three frames in a row were tried and failed, none of them the 60th
C30_Witness ==
    \E c \in Clients :
        /\ InLoop(c)
        /\ loop[c].frame_count < emotion_check_interval
        /\ session_state[c].emotion_attempts >= 3
        /\ session_state[c].emotion_successes = 0

====
